---------------------------- MODULE Spec2Model ----------------------------
(***************************************************************************)
(* Model of the UniswapV4SlotFinder scripts:                               *)
(*   storageSlot.js          StorageSlotFinder (slot derivation, probe)    *)
(*   Uniswapv4PoolReader.js  UniswapV4PoolReader (decode, pool id)         *)
(*   debug.js                ABI-encoded versus packed-encoded derivation  *)
(*   testAlchemy.js          the same probe over slots 0..10               *)
(*                                                                         *)
(* Text is a sequence of one-character strings, bytes are sequences of     *)
(* 0..255, a BigInt is a sequence of 256 bits (least significant first).   *)
(* The words the probe reads are only compared with ===, so they are plain *)
(* strings. keccak256 is an injective function of its input bytes.         *)
(***************************************************************************)
EXTENDS Integers, Sequences, FiniteSets, TLC

VARIABLES
    \* ---- findCorrectPoolsSlot (storageSlot.js) ----
    reader,        \* the provider: candidate index -> word returned, or RPC_ERROR
    pc,            \* position of the async function
    slotNumber,    \* loop variable
    storageSlot,   \* const storageSlot of the current iteration
    data,          \* const data of the current iteration
    pending,       \* indices whose provider.getStorage call is outstanding
    issued,        \* indices on which the provider was invoked, in call order
    result,        \* what findCorrectPoolsSlot returned
    \* ---- slot derivations (storageSlot.js, Uniswapv4PoolReader.js, debug.js) ----
    key,           \* the mapping key (a pool id), a bytes32 hex text
    baseSlot,      \* the base slot index
    finderSlot,    \* StorageSlotFinder.calculateStorageSlot(key, baseSlot)
    readerSlot,    \* UniswapV4PoolReader.calculatePoolStorageSlot(key)
    debugSlots,    \* debug.js: calculatedSlot, manualHash and "Results match?"
    \* ---- calculatePoolId (Uniswapv4PoolReader.js) ----
    addressA,      \* the two addresses of the unordered pair
    addressB,
    fee,
    tickSpacing,
    hookAddress,
    tokensAB,      \* [token0, token1] inside calculatePoolId(addressA, addressB, ...)
    idAB,          \* calculatePoolId(addressA, addressB, ...)
    idBA,          \* calculatePoolId(addressB, addressA, ...)
    \* ---- decodePoolState (Uniswapv4PoolReader.js), testSpecificSlots ----
    fields,        \* the field values the raw word was packed from
    rawData,       \* the raw word, a "0x" + 64 hex digit text
    decoded,       \* what decodePoolState(rawData) returned
    slotDecoded,   \* the values testSpecificSlots decodes from the same word
    \* ---- batchReadPools (Uniswapv4PoolReader.js) ----
    poolIds,       \* the argument of batchReadPools
    promises,      \* the getPoolInfo promises, in the order of poolIds.map
    settled,       \* indices of the promises that settled, in completion order
    batch,         \* the promise batchReadPools returned
    \* ---- testAlchemyStorageAt (testAlchemy.js), after its probe loop ----
    basicIndex,    \* loop variable i of the direct reads of slots 0..5
    basicResult    \* what the last direct read gave

probeVars == <<reader, pc, slotNumber, storageSlot, data, pending, issued, result>>

slotVars == <<key, baseSlot, finderSlot, readerSlot, debugSlots>>

idVars == <<addressA, addressB, fee, tickSpacing, hookAddress, tokensAB, idAB, idBA>>

decVars == <<fields, rawData, decoded, slotDecoded>>

batchVars == <<poolIds, promises, settled, batch>>

basicVars == <<basicIndex, basicResult>>

vars == <<probeVars, slotVars, idVars, decVars, batchVars, basicVars>>

notProbe == <<slotVars, idVars, decVars, batchVars, basicVars>>

notSlot == <<probeVars, idVars, decVars, batchVars, basicVars>>

notId == <<probeVars, slotVars, decVars, batchVars, basicVars>>

notDec == <<probeVars, slotVars, idVars, batchVars, basicVars>>

notBatch == <<probeVars, slotVars, idVars, decVars, basicVars>>

\* what neither probe touches
notAlchemy == <<slotVars, idVars, decVars, batchVars>>

\* a result not computed yet
NONE == <<>>

-----------------------------------------------------------------------------
(* Text and bytes *)

Rep(x, n) == [i \in 1..n |-> x]

HexDigits == <<"0","1","2","3","4","5","6","7","8","9","a","b","c","d","e","f">>

\* value of a hexadecimal digit character, either case
HexVal(ch) ==
    CASE ch = "0" -> 0  [] ch = "1" -> 1  [] ch = "2" -> 2  [] ch = "3" -> 3
      [] ch = "4" -> 4  [] ch = "5" -> 5  [] ch = "6" -> 6  [] ch = "7" -> 7
      [] ch = "8" -> 8  [] ch = "9" -> 9
      [] ch \in {"a", "A"} -> 10  [] ch \in {"b", "B"} -> 11
      [] ch \in {"c", "C"} -> 12  [] ch \in {"d", "D"} -> 13
      [] ch \in {"e", "E"} -> 14  [] ch \in {"f", "F"} -> 15

\* the bytes a "0x..." hex text denotes (ethers getBytes)
HexToBytes(text) ==
    [i \in 1..((Len(text) - 2) \div 2) |->
        16 * HexVal(text[2 * i + 1]) + HexVal(text[2 * i + 2])]

\* storageSlot.js:6, debug.js:4, testAlchemy.js:6
KNOWN_POOL_ID ==
    <<"0","x",
      "2","b","1","2","5","2","3","c","5","2","f","9","3","7","6","4",
      "3","9","9","6","8","e","7","0","e","1","f","1","0","c","c","c",
      "1","0","6","a","c","8","0","7","8","1","b","f","4","0","b","0",
      "c","8","e","e","b","2","c","1","9","a","2","2","3","8","2","e">>

\* storageSlot.js:9
EXPECTED_RAW_DATA ==
    "0x000000004e20000000fd435c000000000000000000085a6afa601db20218ff54"

\* storageSlot.js:56
ZERO_WORD ==
    "0x0000000000000000000000000000000000000000000000000000000000000000"

\* a word that is neither zero nor the expected one
OTHER_WORD ==
    "0x0000000000000000000000000000000000000000000000000000000000000001"

\* provider.getStorage rejects
RPC_ERROR == "rpc error"

\* JavaScript null
NULL == "null"

-----------------------------------------------------------------------------
(* Structured encoder and hasher (ethers AbiCoder, solidityPacked, keccak256) *)

\* big-endian bytes of n (0 <= n < 2^31) on len bytes
BigEndian(n, len) ==
    [i \in 1..len |->
        IF len - i <= 3 THEN (n \div (256 ^ (len - i))) % 256 ELSE 0]

\* AbiCoder.encode of one bytes32 value: the 32 bytes themselves
AbiBytes32(text) == HexToBytes(text)

\* AbiCoder.encode of one uint256 value: left-zero-padded to 32 bytes
AbiUint256(n) == BigEndian(n, 32)

\* solidityPacked of one bytes32 value: its 32 bytes, unpadded
PackedBytes32(text) == HexToBytes(text)

\* solidityPacked of one uintN value: big-endian on N/8 bytes
PackedUint(n, bits) == BigEndian(n, bits \div 8)

\* AbiCoder.encode of one address: getAddress accepts either letter case, the
\* 20 bytes are left-zero-padded to 32
AbiAddress(text) == Rep(0, 12) \o HexToBytes(text)

\* AbiCoder.encode of one uint24 value: left-zero-padded to 32 bytes
AbiUint24(n) == BigEndian(n, 32)

\* AbiCoder.encode of one int24 value: two's complement, sign-extended to 32
\* bytes
AbiInt24(n) ==
    IF n >= 0 THEN BigEndian(n, 32)
    ELSE Rep(255, 29) \o BigEndian(n + 16777216, 3)

\* ethers.keccak256: modelled as injective on byte sequences
keccak256(bytes) == <<"keccak256", bytes>>

calculateStorageSlotIndexFirst(id, slotNumber_) ==
    keccak256(AbiUint256(slotNumber_) \o AbiBytes32(id))

\* StorageSlotFinder.calculateStorageSlot: AbiCoder.encode(["bytes32",
\* "uint256"], [poolId, slotNumber]) then keccak256
calculateStorageSlot(id, slotNumber_) ==
    keccak256(AbiBytes32(id) \o AbiUint256(slotNumber_))

\* Uniswapv4PoolReader.js:16, debug.js:5
POOL_STATE_SLOT == 6

\* UniswapV4PoolReader.calculatePoolStorageSlot
calculatePoolStorageSlot(id) ==
    keccak256(AbiBytes32(id) \o AbiUint256(POOL_STATE_SLOT))

\* debug.js "Method 1": encodedSlot and calculatedSlot
debugCalculatedSlot(id, slotNumber_) ==
    keccak256(AbiBytes32(id) \o AbiUint256(slotNumber_))

\* debug.js "Manual Verification": manualEncoded and manualHash
debugManualHash(id, slotNumber_) ==
    keccak256(PackedBytes32(id) \o PackedUint(slotNumber_, 256))

-----------------------------------------------------------------------------
(* The slot probe: StorageSlotFinder.findCorrectPoolsSlot *)

\* last candidate index of the loop: slotNumber <= 20
MaxSlot == 20

\* at most this many candidate slots answer something else than the zero word
MaxNonZero == 2

Candidates == 0..MaxSlot

\* the derived slot of each candidate index for the known pool id
CandidateSlot ==
    [i \in Candidates |-> calculateStorageSlot(KNOWN_POOL_ID, i)]

\* what a candidate slot can answer besides the zero word
NonZeroAnswers == {EXPECTED_RAW_DATA, OTHER_WORD, RPC_ERROR}

\* the reader that answers kind[k] at index pos[k] and the zero word elsewhere
ReaderOf(n, pos, kind) ==
    [i \in Candidates |->
        IF \E k \in 1..n : pos[k] = i
        THEN kind[CHOOSE k \in 1..n : pos[k] = i]
        ELSE ZERO_WORD]

\* provider.getStorage(POOL_MANAGER_ADDRESS, slot): the reader's answer for
\* the candidate index whose derived slot is asked for
getStorage(slot) ==
    reader[CHOOSE i \in Candidates : CandidateSlot[i] = slot]

Running == [tag |-> "running", slot |-> -1]
Found(i) == [tag |-> "found", slot |-> i]
NotFound == [tag |-> "null", slot |-> -1]

\* if (data): null and "" are falsy
Truthy(d) == d # NULL /\ d # ""

MatchesNonZero(d) == d # ZERO_WORD

\* data === EXPECTED_RAW_DATA
Matches(d) == d = EXPECTED_RAW_DATA

BatchIdle ==
    /\ poolIds = <<>>
    /\ promises = <<>>
    /\ settled = <<>>
    /\ batch = [state |-> "idle"]

BasicIdle ==
    /\ basicIndex = 0
    /\ basicResult = NULL

SlotIdle ==
    /\ key = NONE
    /\ baseSlot = 0
    /\ finderSlot = NONE
    /\ readerSlot = NONE
    /\ debugSlots = NONE

IdIdle ==
    /\ addressA = NONE
    /\ addressB = NONE
    /\ fee = 0
    /\ tickSpacing = 0
    /\ hookAddress = NONE
    /\ tokensAB = NONE
    /\ idAB = NONE
    /\ idBA = NONE

DecIdle ==
    /\ fields = NONE
    /\ rawData = NONE
    /\ decoded = NONE
    /\ slotDecoded = NONE

ProbeIdle ==
    /\ reader = NONE
    /\ pc = "idle"
    /\ slotNumber = 0
    /\ storageSlot = NONE
    /\ data = NULL
    /\ pending = {}
    /\ issued = <<>>
    /\ result = NONE

ProbeInit ==
    /\ SlotIdle
    /\ IdIdle
    /\ DecIdle
    /\ BatchIdle
    /\ BasicIdle
    /\ \E n \in 0..MaxNonZero :
         \E pos \in [1..n -> Candidates], kind \in [1..n -> NonZeroAnswers] :
            /\ \A k \in 1..(n - 1) : pos[k] < pos[k + 1]
            /\ reader = ReaderOf(n, pos, kind)
    /\ pc = "loop"
    /\ slotNumber = 0
    /\ storageSlot = <<>>
    /\ data = NULL
    /\ pending = {}
    /\ issued = <<>>
    /\ result = Running

IssueReadNoAwait ==
    /\ pc = "loop"
    /\ slotNumber <= MaxSlot
    /\ storageSlot' = CandidateSlot[slotNumber]
    /\ pending' = pending \cup {slotNumber}
    /\ issued' = Append(issued, slotNumber)
    /\ data' = "[object Promise]"
    /\ pc' = "awaitDelay"
    /\ UNCHANGED <<reader, slotNumber, result>>
    /\ UNCHANGED notProbe

\* loop head and body up to the await of readStorageSlot: the slot is
\* computed and provider.getStorage is called
IssueRead ==
    /\ pc = "loop"
    /\ slotNumber <= MaxSlot
    /\ storageSlot' = CandidateSlot[slotNumber]
    /\ pending' = pending \cup {slotNumber}
    /\ issued' = Append(issued, slotNumber)
    /\ pc' = "awaitRead"
    /\ UNCHANGED <<reader, slotNumber, data, result>>
    /\ UNCHANGED notProbe

ReadReturnsNoStop ==
    /\ pc = "awaitRead"
    /\ slotNumber \in pending
    /\ getStorage(storageSlot) # RPC_ERROR
    /\ pending' = pending \ {slotNumber}
    /\ data' = getStorage(storageSlot)
    /\ IF Truthy(data') /\ Matches(data')
       THEN /\ result' = Found(slotNumber)
            /\ pc' = "awaitDelay"
       ELSE /\ result' = result
            /\ pc' = "awaitDelay"
    /\ UNCHANGED <<reader, slotNumber, storageSlot, issued>>
    /\ UNCHANGED notProbe

\* provider.getStorage resolves: readStorageSlot returns the word, the word
\* is compared, and the function returns or starts the 100 ms delay
ReadReturns ==
    /\ pc = "awaitRead"
    /\ slotNumber \in pending
    /\ getStorage(storageSlot) # RPC_ERROR
    /\ pending' = pending \ {slotNumber}
    /\ data' = getStorage(storageSlot)
    /\ IF Truthy(data') /\ Matches(data')
       THEN /\ result' = Found(slotNumber)
            /\ pc' = "done"
       ELSE /\ result' = result
            /\ pc' = "awaitDelay"
    /\ UNCHANGED <<reader, slotNumber, storageSlot, issued>>
    /\ UNCHANGED notProbe

ReadFailsRetry ==
    /\ pc = "awaitRead"
    /\ slotNumber \in pending
    /\ getStorage(storageSlot) = RPC_ERROR
    /\ pending' = pending \ {slotNumber}
    /\ data' = NULL
    /\ pc' = "loop"
    /\ UNCHANGED <<reader, slotNumber, storageSlot, issued, result>>
    /\ UNCHANGED notProbe

\* provider.getStorage rejects: readStorageSlot catches, logs and returns
\* null; if (data) is false for null, nothing is compared and the function
\* starts the 100 ms delay
ReadFails ==
    /\ pc = "awaitRead"
    /\ slotNumber \in pending
    /\ getStorage(storageSlot) = RPC_ERROR
    /\ pending' = pending \ {slotNumber}
    /\ data' = NULL
    /\ ~Truthy(data')
    /\ pc' = "awaitDelay"
    /\ UNCHANGED <<reader, slotNumber, storageSlot, issued, result>>
    /\ UNCHANGED notProbe

\* the delay promise resolves: slotNumber++
DelayElapsed ==
    /\ pc = "awaitDelay"
    /\ slotNumber' = slotNumber + 1
    /\ pc' = "loop"
    /\ UNCHANGED <<reader, storageSlot, data, pending, issued, result>>
    /\ UNCHANGED notProbe

ExhaustRangeRestart ==
    /\ pc = "loop"
    /\ slotNumber > MaxSlot
    /\ slotNumber' = 0
    /\ UNCHANGED <<reader, pc, storageSlot, data, pending, issued, result>>
    /\ UNCHANGED notProbe

\* the loop condition fails: return null
ExhaustRange ==
    /\ pc = "loop"
    /\ slotNumber > MaxSlot
    /\ result' = NotFound
    /\ pc' = "done"
    /\ UNCHANGED <<reader, slotNumber, storageSlot, data, pending, issued>>
    /\ UNCHANGED notProbe

ProbeNext ==
    \/ IssueRead
    \/ ReadReturns
    \/ ReadFails
    \/ DelayElapsed
    \/ ExhaustRange

SpecProbe == ProbeInit /\ [][ProbeNext]_vars

-----------------------------------------------------------------------------
(* testAlchemy.js: testAlchemyStorageAt, the probe over slotsToTest and the
   direct reads of slots 0..5 that follow it *)

\* last element of slotsToTest
MaxAlchemySlot == 10

\* for (let i = 0; i <= 5; i++)
MaxBasicSlot == 5

\* what a direct read can give
BasicAnswers == {ZERO_WORD, OTHER_WORD, RPC_ERROR}

\* loop head and try block up to the await: POOL_ID and the encoding are
\* those of calculateStorageSlot(KNOWN_POOL_ID, slotNum)
AlchemyIssueRead ==
    /\ pc = "alchemyLoop"
    /\ slotNumber <= MaxAlchemySlot
    /\ storageSlot' = CandidateSlot[slotNumber]
    /\ pending' = pending \cup {slotNumber}
    /\ issued' = Append(issued, slotNumber)
    /\ pc' = "alchemyAwait"
    /\ UNCHANGED <<reader, slotNumber, data, result>>
    /\ UNCHANGED <<notAlchemy, basicVars>>

\* provider.getStorage resolves: on a match the loop is left with break
\* (result records the slot logged as the match), otherwise the next
\* element of slotsToTest is taken
AlchemyReadReturns ==
    /\ pc = "alchemyAwait"
    /\ slotNumber \in pending
    /\ getStorage(storageSlot) # RPC_ERROR
    /\ pending' = pending \ {slotNumber}
    /\ data' = getStorage(storageSlot)
    /\ IF data' = EXPECTED_RAW_DATA
       THEN /\ result' = Found(slotNumber)
            /\ slotNumber' = slotNumber
            /\ pc' = "basicLoop"
       ELSE /\ result' = result
            /\ slotNumber' = slotNumber + 1
            /\ pc' = "alchemyLoop"
    /\ UNCHANGED <<reader, storageSlot, issued>>
    /\ UNCHANGED <<notAlchemy, basicVars>>

\* provider.getStorage rejects: the catch block inside the loop logs the
\* error and the next element of slotsToTest is taken
AlchemyReadFails ==
    /\ pc = "alchemyAwait"
    /\ slotNumber \in pending
    /\ getStorage(storageSlot) = RPC_ERROR
    /\ pending' = pending \ {slotNumber}
    /\ data' = NULL
    /\ slotNumber' = slotNumber + 1
    /\ pc' = "alchemyLoop"
    /\ UNCHANGED <<reader, storageSlot, issued, result>>
    /\ UNCHANGED <<notAlchemy, basicVars>>

\* slotsToTest is exhausted
AlchemyLoopExit ==
    /\ pc = "alchemyLoop"
    /\ slotNumber > MaxAlchemySlot
    /\ pc' = "basicLoop"
    /\ UNCHANGED <<reader, slotNumber, storageSlot, data, pending, issued, result>>
    /\ UNCHANGED <<notAlchemy, basicVars>>

\* a direct read of slot i is called and awaited
BasicIssueRead ==
    /\ pc = "basicLoop"
    /\ basicIndex <= MaxBasicSlot
    /\ pc' = "basicAwait"
    /\ UNCHANGED <<reader, slotNumber, storageSlot, data, pending, issued, result>>
    /\ UNCHANGED <<notAlchemy, basicVars>>

\* the direct read resolves and is logged
BasicReadReturns ==
    /\ pc = "basicAwait"
    /\ basicResult' \in BasicAnswers \ {RPC_ERROR}
    /\ basicIndex' = basicIndex + 1
    /\ pc' = "basicLoop"
    /\ UNCHANGED <<reader, slotNumber, storageSlot, data, pending, issued, result>>
    /\ UNCHANGED notAlchemy

\* the direct read rejects: the catch block logs the error
BasicReadFails ==
    /\ pc = "basicAwait"
    /\ basicResult' = RPC_ERROR
    /\ basicIndex' = basicIndex + 1
    /\ pc' = "basicLoop"
    /\ UNCHANGED <<reader, slotNumber, storageSlot, data, pending, issued, result>>
    /\ UNCHANGED notAlchemy

\* testAlchemyStorageAt returns
BasicLoopExit ==
    /\ pc = "basicLoop"
    /\ basicIndex > MaxBasicSlot
    /\ pc' = "alchemyDone"
    /\ UNCHANGED <<reader, slotNumber, storageSlot, data, pending, issued, result>>
    /\ UNCHANGED <<notAlchemy, basicVars>>

AlchemyNext ==
    \/ AlchemyIssueRead
    \/ AlchemyReadReturns
    \/ AlchemyReadFails
    \/ AlchemyLoopExit
    \/ BasicIssueRead
    \/ BasicReadReturns
    \/ BasicReadFails
    \/ BasicLoopExit

(* Both probes under the scheduling of the JavaScript event loop *)

\* candidate indices at which the readers explored here answer something
\* else than the zero word: the first index, the slot of the _pools mapping,
\* and the last index of each probe
AnswerPositions == {0, POOL_STATE_SLOT, MaxAlchemySlot, MaxSlot}

\* either script is started with a reader answering anything at the
\* positions above and the zero word elsewhere
TerminateInit ==
    /\ SlotIdle
    /\ IdIdle
    /\ DecIdle
    /\ BatchIdle
    /\ BasicIdle
    /\ \E answer \in [AnswerPositions -> NonZeroAnswers \cup {ZERO_WORD}] :
          reader = [i \in Candidates |->
                       IF i \in AnswerPositions THEN answer[i] ELSE ZERO_WORD]
    /\ pc \in {"loop", "alchemyLoop"}
    /\ slotNumber = 0
    /\ storageSlot = <<>>
    /\ data = NULL
    /\ pending = {}
    /\ issued = <<>>
    /\ result = Running

\* a call of the reader that is outstanding completes, with a word or with
\* a failure
ReaderCompletes ==
    \/ ReadReturns
    \/ ReadFails
    \/ AlchemyReadReturns
    \/ AlchemyReadFails
    \/ BasicReadReturns
    \/ BasicReadFails

\* a continuation of the async function that is ready runs
FunctionResumes ==
    \/ IssueRead
    \/ ExhaustRange
    \/ AlchemyIssueRead
    \/ AlchemyLoopExit
    \/ BasicIssueRead
    \/ BasicLoopExit

TerminateNext ==
    \/ ProbeNext
    \/ AlchemyNext

\* every reader call eventually completes, the 100 ms timer fires, and the
\* event loop runs every ready continuation
SpecTerminate ==
    /\ TerminateInit
    /\ [][TerminateNext]_vars
    /\ WF_vars(ReaderCompletes)
    /\ WF_vars(DelayElapsed)
    /\ WF_vars(FunctionResumes)

-----------------------------------------------------------------------------
(* The baseSlot derivations, on keys and base baseSlot indices drawn from small sets *)

\* a key whose bytes are those of an encoded small index
KEY_SIX == <<"0", "x">> \o Rep("0", 63) \o <<"6">>

KEY_ONES == <<"0", "x">> \o Rep("F", 64)

PoolIds == {KNOWN_POOL_ID, KEY_SIX, KEY_ONES, <<"0", "x">> \o Rep("0", 64)}

BaseSlots == (0..10) \cup {20, 255, 256, 65535, 65536, 16777216, 2147483647}

SlotInit ==
    /\ key \in PoolIds
    /\ baseSlot \in BaseSlots
    /\ finderSlot = NONE
    /\ readerSlot = NONE
    /\ debugSlots = NONE
    /\ IdIdle
    /\ DecIdle
    /\ ProbeIdle
    /\ BatchIdle
    /\ BasicIdle

\* storageSlot.js: this.calculateStorageSlot(KNOWN_POOL_ID, slot)
CallCalculateStorageSlot ==
    /\ finderSlot = NONE
    /\ finderSlot' = calculateStorageSlot(key, baseSlot)
    /\ UNCHANGED <<key, baseSlot, readerSlot, debugSlots>>
    /\ UNCHANGED notSlot

\* Uniswapv4PoolReader.js: this.calculatePoolStorageSlot(poolId)
CallCalculatePoolStorageSlot ==
    /\ readerSlot = NONE
    /\ readerSlot' = calculatePoolStorageSlot(key)
    /\ UNCHANGED <<key, baseSlot, finderSlot, debugSlots>>
    /\ UNCHANGED notSlot

\* debug.js: both derivations and the comparison calculatedSlot === manualHash
RunDebug ==
    /\ debugSlots = NONE
    /\ LET calculatedSlot == debugCalculatedSlot(key, baseSlot)
           manualHash == debugManualHash(key, baseSlot)
       IN  debugSlots' = [calculatedSlot |-> calculatedSlot,
                          manualHash |-> manualHash,
                          match |-> (calculatedSlot = manualHash)]
    /\ UNCHANGED <<key, baseSlot, finderSlot, readerSlot>>
    /\ UNCHANGED notSlot

SlotNext ==
    \/ CallCalculateStorageSlot
    \/ CallCalculatePoolStorageSlot
    \/ RunDebug

SpecSlot == SlotInit /\ [][SlotNext]_vars

-----------------------------------------------------------------------------
(* The identifier: UniswapV4PoolReader.calculatePoolId *)

\* UTF-16 code unit of a character of an address text
CharCode(ch) ==
    CASE ch = "0" -> 48  [] ch = "1" -> 49  [] ch = "2" -> 50  [] ch = "3" -> 51
      [] ch = "4" -> 52  [] ch = "5" -> 53  [] ch = "6" -> 54  [] ch = "7" -> 55
      [] ch = "8" -> 56  [] ch = "9" -> 57
      [] ch = "A" -> 65  [] ch = "B" -> 66  [] ch = "C" -> 67
      [] ch = "D" -> 68  [] ch = "E" -> 69  [] ch = "F" -> 70
      [] ch = "a" -> 97  [] ch = "b" -> 98  [] ch = "c" -> 99
      [] ch = "d" -> 100 [] ch = "e" -> 101 [] ch = "f" -> 102
      [] ch = "x" -> 120 [] ch = "X" -> 88

LowerChar(ch) ==
    CASE ch = "A" -> "a" [] ch = "B" -> "b" [] ch = "C" -> "c"
      [] ch = "D" -> "d" [] ch = "E" -> "e" [] ch = "F" -> "f"
      [] ch = "X" -> "x" [] OTHER -> ch

UpperChar(ch) ==
    CASE ch = "a" -> "A" [] ch = "b" -> "B" [] ch = "c" -> "C"
      [] ch = "d" -> "D" [] ch = "e" -> "E" [] ch = "f" -> "F"
      [] OTHER -> ch

\* String.prototype.toLowerCase
toLowerCase(text) == [i \in 1..Len(text) |-> LowerChar(text[i])]

\* the relational operator < on two strings: code units compared left to
\* right, a proper prefix is smaller
StringLess(s, t) ==
    \E i \in 1..Len(t) :
        /\ \A j \in 1..(i - 1) : j <= Len(s) /\ s[j] = t[j]
        /\ \/ i = Len(s) + 1
           \/ i <= Len(s) /\ CharCode(s[i]) < CharCode(t[i])

SortTokensUnsorted(currency0, currency1) == <<currency0, currency1>>

SortTokensCaseSensitive(currency0, currency1) ==
    IF StringLess(currency0, currency1)
    THEN <<currency0, currency1>>
    ELSE <<currency1, currency0>>

\* const [token0, token1] = currency0.toLowerCase() < currency1.toLowerCase()
\*     ? [currency0, currency1] : [currency1, currency0]
SortTokens(currency0, currency1) ==
    IF StringLess(toLowerCase(currency0), toLowerCase(currency1))
    THEN <<currency0, currency1>>
    ELSE <<currency1, currency0>>

\* AbiCoder.encode(["address","address","uint24","int24","address"], ...)
encodeParams(token0, token1, fee_, tickSpacing_, hook) ==
    AbiAddress(token0) \o AbiAddress(token1) \o AbiUint24(fee_)
        \o AbiInt24(tickSpacing_) \o AbiAddress(hook)

calculatePoolId(currency0, currency1, fee_, tickSpacing_, hook) ==
    LET t == SortTokens(currency0, currency1)
    IN  keccak256(encodeParams(t[1], t[2], fee_, tickSpacing_, hook))

\* Uniswapv4PoolReader.js:172
CURRENCY0 ==
    <<"0","x",
      "7","7","9","3","3","D","3","3","9","C","8","8","4","5","8","4","5","0","6","7",
      "6","1","5","6","8","2","0","D","6","e","2","8","b","C","c","9","8","B","F","5">>

\* Uniswapv4PoolReader.js:173
CURRENCY1 ==
    <<"0","x",
      "f","b","4","c","C","C","d","1","4","8","5","F","D","5","6","C","1","E","6","B",
      "F","9","3","2","7","4","7","7","8","d","2","F","7","a","B","e","5","4","6","D">>

\* Uniswapv4PoolReader.js:176
HOOK_ADDRESS ==
    <<"0","x",
      "7","0","F","e","3","F","a","2","f","8","0","6","5","8","9","8","7","0","6","6",
      "7","4","A","c","d","0","3","D","7","b","2","6","9","6","1","6","1","0","0","0">>

\* ethers.ZeroAddress
ZeroAddress == <<"0", "x">> \o Rep("0", 40)

\* the same address with its hex digits in upper case
UpperDigits(text) ==
    [i \in 1..Len(text) |-> IF i <= 2 THEN text[i] ELSE UpperChar(text[i])]

Addresses ==
    {CURRENCY0, toLowerCase(CURRENCY0), CURRENCY1, UpperDigits(CURRENCY1),
     HOOK_ADDRESS, ZeroAddress, <<"0", "x">> \o Rep("a", 40)}

Fees == {3000, 8388608}

TickSpacings == {60, -60}

Hooks == {ZeroAddress, HOOK_ADDRESS}

IdInit ==
    /\ addressA \in Addresses
    /\ addressB \in Addresses
    /\ fee \in Fees
    /\ tickSpacing \in TickSpacings
    /\ hookAddress \in Hooks
    /\ tokensAB = NONE
    /\ idAB = NONE
    /\ idBA = NONE
    /\ SlotIdle
    /\ DecIdle
    /\ ProbeIdle
    /\ BatchIdle
    /\ BasicIdle

\* reader.calculatePoolId(addressA, addressB, fee, tickSpacing, hookAddress)
CallPoolIdAB ==
    /\ idAB = NONE
    /\ tokensAB' = SortTokens(addressA, addressB)
    /\ idAB' = calculatePoolId(addressA, addressB, fee, tickSpacing, hookAddress)
    /\ UNCHANGED <<addressA, addressB, fee, tickSpacing, hookAddress, idBA>>
    /\ UNCHANGED notId

\* reader.calculatePoolId(addressB, addressA, fee, tickSpacing, hookAddress)
CallPoolIdBA ==
    /\ idBA = NONE
    /\ idBA' = calculatePoolId(addressB, addressA, fee, tickSpacing, hookAddress)
    /\ UNCHANGED <<addressA, addressB, fee, tickSpacing, hookAddress, tokensAB, idAB>>
    /\ UNCHANGED notId

IdNext ==
    \/ CallPoolIdAB
    \/ CallPoolIdBA

SpecId == IdInit /\ [][IdNext]_vars

-----------------------------------------------------------------------------
(* The packed word decoder: UniswapV4PoolReader.decodePoolState *)

WordBits == 256

\* BigInt(rawData): the integer a "0x" + 64 hex digit text denotes, as its
\* bits, element i being bit i - 1
BigInt(text) ==
    [i \in 1..WordBits |->
        (HexVal(text[Len(text) - ((i - 1) \div 4)]) \div (2 ^ ((i - 1) % 4))) % 2]

\* x >> n
ShiftRight(x, n) ==
    [i \in 1..WordBits |-> IF i + n <= WordBits THEN x[i + n] ELSE 0]

\* (1n << n) - 1n
OnesMask(n) == [i \in 1..WordBits |-> IF i <= n THEN 1 ELSE 0]

\* x & y
BitAnd(x, y) == [i \in 1..WordBits |-> x[i] * y[i]]

\* bits 4n..4n+3 of x as a number
Nibble(x, n) ==
    x[4 * n + 1] + 2 * x[4 * n + 2] + 4 * x[4 * n + 3] + 8 * x[4 * n + 4]

\* the k-th 16-bit limb of a BigInt, limb 1 the least significant
Limb(x, k) ==
    Nibble(x, 4 * k - 4) + 16 * Nibble(x, 4 * k - 3)
        + 256 * Nibble(x, 4 * k - 2) + 4096 * Nibble(x, 4 * k - 1)

\* the number a BigInt below 2^31 is
ToInt(x) == Limb(x, 1) + 65536 * Limb(x, 2)

DecimalDigits == <<"0", "1", "2", "3", "4", "5", "6", "7", "8", "9">>

\* Number/BigInt.prototype.toString of an integer below 2^31 in magnitude
RECURSIVE NatToString(_)
NatToString(n) ==
    IF n < 10 THEN <<DecimalDigits[n + 1]>>
    ELSE Append(NatToString(n \div 10), DecimalDigits[(n % 10) + 1])

IntToString(n) == IF n < 0 THEN <<"-">> \o NatToString(-n) ELSE NatToString(n)

\* the 16-bit limbs of a BigInt, least significant first, without the zero
\* limbs at the top
Limbs(x) ==
    LET top == {k \in 1..(WordBits \div 16) : Limb(x, k) # 0}
        n == IF top = {} THEN 0 ELSE CHOOSE k \in top : \A m \in top : m <= k
    IN  [k \in 1..n |-> Limb(x, k)]

\* limbs k..1 divided by 10000 with incoming remainder r:
\* <<quotient limbs 1..k, remainder>>
RECURSIVE DivTenThousand(_, _, _)
DivTenThousand(limbs, k, r) ==
    IF k = 0 THEN <<<<>>, r>>
    ELSE LET cur == r * 65536 + limbs[k]
             rest == DivTenThousand(limbs, k - 1, cur % 10000)
         IN  <<Append(rest[1], cur \div 10000), rest[2]>>

\* four decimal digits of n < 10000
FourDigits(n) ==
    <<DecimalDigits[(n \div 1000) + 1], DecimalDigits[((n \div 100) % 10) + 1],
      DecimalDigits[((n \div 10) % 10) + 1], DecimalDigits[(n % 10) + 1]>>

\* the decimal digits of a number given by its limbs, four at a time
RECURSIVE LimbsToString(_)
LimbsToString(limbs) ==
    LET d == DivTenThousand(limbs, Len(limbs), 0)
    IN  IF \A k \in 1..Len(limbs) : d[1][k] = 0
        THEN NatToString(d[2])
        ELSE LimbsToString(d[1]) \o FourDigits(d[2])

\* BigInt.prototype.toString of a non-negative BigInt of any size
BigToString(x) == LimbsToString(Limbs(x))

sqrtPriceX96OfNarrowMask(d) == BitAnd(d, OnesMask(128))

\* data & ((1n << 160n) - 1n)
sqrtPriceX96Of(d) == BitAnd(d, OnesMask(160))

\* (data >> 160n) & ((1n << 24n) - 1n)
tickOf(d) == ToInt(BitAnd(ShiftRight(d, 160), OnesMask(24)))

protocolFeeOfWrongShift(d) == ToInt(BitAnd(ShiftRight(d, 192), OnesMask(24)))

\* (data >> 184n) & ((1n << 24n) - 1n)
protocolFeeOf(d) == ToInt(BitAnd(ShiftRight(d, 184), OnesMask(24)))

\* (data >> 208n) & ((1n << 24n) - 1n)
lpFeeOf(d) == ToInt(BitAnd(ShiftRight(d, 208), OnesMask(24)))

\* (1n << 23n) - 1n
maxTickValue == (2 ^ 23) - 1

signedTickOfOffByOne(tick) ==
    IF tick >= maxTickValue THEN tick - (2 ^ 24) ELSE tick

\* tick > maxTickValue ? tick - (1n << 24n) : tick
signedTickOf(tick) == IF tick > maxTickValue THEN tick - (2 ^ 24) ELSE tick

decodePoolState(raw) ==
    LET d == BigInt(raw)
    IN  [sqrtPriceX96 |-> BigToString(sqrtPriceX96Of(d)),
         tick |-> IntToString(signedTickOf(tickOf(d))),
         protocolFee |-> IntToString(protocolFeeOf(d)),
         lpFee |-> IntToString(lpFeeOf(d)),
         rawData |-> raw]

\* storageSlot.js testSpecificSlots: sqrtPriceX96 and the unsigned tick
decodeSpecificSlot(raw) ==
    LET bigIntData == BigInt(raw)
    IN  [sqrtPriceX96 |-> BigToString(BitAnd(bigIntData, OnesMask(160))),
         tick |-> BigToString(BitAnd(ShiftRight(bigIntData, 160), OnesMask(24)))]

(* Raw words: every 256-bit word is the packing of five field values *)

\* n (0 <= n < 16^len) as len hex digits
HexOf(n, len) ==
    [i \in 1..len |-> HexDigits[((n \div (16 ^ (len - i))) % 16) + 1]]

\* the word holding sqrtPriceX96 at bit 0, tick (two's complement) at bit 160,
\* protocolFee at bit 184, lpFee at bit 208 and the unused bits 232..255
Pack(f) ==
    <<"0", "x">> \o f.top \o HexOf(f.lpFee, 6) \o HexOf(f.protocolFee, 6)
        \o HexOf(IF f.tick < 0 THEN f.tick + 16777216 ELSE f.tick, 6)
        \o f.sqrtPriceX96

\* low 160 bits of EXPECTED_RAW_DATA
KNOWN_SQRT_PRICE ==
    Rep("0", 18) \o
    <<"0","8","5","a","6","a","f","a","6","0","1","d","b","2","0","2","1","8","f","f","5","4">>

SqrtPrices ==
    {Rep("0", 40), Rep("0", 39) \o <<"1">>, KNOWN_SQRT_PRICE,
     <<"8">> \o Rep("0", 39), Rep("f", 40)}

Ticks == {0, 1, -1, 8388607, -8388608, -179364}

ProtocolFees == {0, 1, 16777215}

LpFees == {0, 20000, 16777215}

TopBits == {Rep("0", 6), Rep("f", 6), <<"8", "0", "0", "0", "0", "1">>}

DecInit ==
    /\ \E s \in SqrtPrices, t \in Ticks, p \in ProtocolFees, l \in LpFees,
          u \in TopBits :
          fields = [sqrtPriceX96 |-> s, tick |-> t, protocolFee |-> p,
                    lpFee |-> l, top |-> u]
    /\ rawData = Pack(fields)
    /\ decoded = NONE
    /\ slotDecoded = NONE
    /\ SlotIdle
    /\ IdIdle
    /\ ProbeIdle
    /\ BatchIdle
    /\ BasicIdle

\* reader.decodePoolState(rawData)
CallDecodePoolState ==
    /\ decoded = NONE
    /\ decoded' = decodePoolState(rawData)
    /\ UNCHANGED <<fields, rawData, slotDecoded>>
    /\ UNCHANGED notDec

ZERO_TEXT == <<"0", "x">> \o Rep("0", 64)

\* testSpecificSlots: a non-zero word is decoded
DecodeSpecificSlot ==
    /\ slotDecoded = NONE
    /\ rawData # ZERO_TEXT
    /\ slotDecoded' = decodeSpecificSlot(rawData)
    /\ UNCHANGED <<fields, rawData, decoded>>
    /\ UNCHANGED notDec

DecNext ==
    \/ CallDecodePoolState
    \/ DecodeSpecificSlot

SpecDecode == DecInit /\ [][DecNext]_vars

-----------------------------------------------------------------------------
(* Uniswapv4PoolReader.js: readPoolStateRaw, getPoolInfo, batchReadPools *)

\* largest poolIds array explored
MaxBatch == 3

\* EXPECTED_RAW_DATA as the text extsload returns
KNOWN_WORD ==
    Pack([sqrtPriceX96 |-> KNOWN_SQRT_PRICE, tick |-> -179364,
          protocolFee |-> 0, lpFee |-> 20000, top |-> Rep("0", 6)])

\* words the extsload static call may return
BatchWords == {ZERO_TEXT, KNOWN_WORD}

BatchPoolIds == {KNOWN_POOL_ID, KEY_SIX}

\* the Error object the k-th static call rejects with; readPoolStateRaw and
\* getPoolInfo log it and rethrow the same object
CallError(k) == [name |-> "CALL_EXCEPTION", call |-> k]

\* getPoolInfo after readPoolStateRaw resolved with raw; sqrtPrice and
\* calculatedPrice are floating-point numbers, kept as terms over the decimal
\* text they are computed from
getPoolInfo(poolId, raw) ==
    LET decodedState == decodePoolState(raw)
        sqrtPrice == <<"Number/2**96", decodedState.sqrtPriceX96>>
        price == <<"*", sqrtPrice, sqrtPrice>>
    IN  [poolId |-> poolId,
         sqrtPriceX96 |-> decodedState.sqrtPriceX96,
         tick |-> decodedState.tick,
         protocolFee |-> decodedState.protocolFee,
         lpFee |-> decodedState.lpFee,
         rawData |-> decodedState.rawData,
         calculatedPrice |-> price,
         sqrtPrice |-> sqrtPrice]

\* the array the results come in when they are taken in completion order
PromiseAllValuesByCompletion(ps, order) ==
    [k \in 1..Len(ps) |-> ps[order[k]].value]

\* Promise.all: the fulfilment value holds the value of the k-th promise at
\* position k
PromiseAllValues(ps, order) ==
    [k \in 1..Len(ps) |-> ps[k].value]

\* Promise.all after one of its promises settled: the first rejection
\* rejects it with that reason, the last fulfilment fulfils it with the
\* array of values; a settled promise never changes
PromiseAll(b, ps, order, k) ==
    IF b.state # "pending" THEN b
    ELSE IF ps[k].state = "rejected"
         THEN [state |-> "rejected", reason |-> ps[k].reason]
    ELSE IF \A j \in 1..Len(ps) : ps[j].state = "fulfilled"
         THEN [state |-> "fulfilled", value |-> PromiseAllValues(ps, order)]
    ELSE b

BatchInit ==
    /\ \E n \in 0..MaxBatch : poolIds \in [1..n -> BatchPoolIds]
    /\ promises = <<>>
    /\ settled = <<>>
    /\ batch = [state |-> "notCalled"]
    /\ BasicIdle
    /\ SlotIdle
    /\ IdIdle
    /\ DecIdle
    /\ ProbeIdle

\* batchReadPools(poolIds): poolIds.map runs every getPoolInfo up to the
\* await of its extsload static call, then Promise.all is returned; of an
\* empty array Promise.all is fulfilled with an empty array
CallBatchReadPools ==
    /\ batch.state = "notCalled"
    /\ promises' = [k \in 1..Len(poolIds) |->
                       [state |-> "pending",
                        storageSlot |-> calculatePoolStorageSlot(poolIds[k])]]
    /\ batch' = IF Len(poolIds) = 0
                THEN [state |-> "fulfilled", value |-> <<>>]
                ELSE [state |-> "pending"]
    /\ UNCHANGED <<poolIds, settled>>
    /\ UNCHANGED notBatch

\* the static call of the k-th getPoolInfo resolves with a word:
\* readPoolStateRaw returns it, getPoolInfo decodes it and returns the info
ExtsloadReturns ==
    /\ \E k \in 1..Len(promises), raw \in BatchWords :
          /\ promises[k].state = "pending"
          /\ promises' = [promises EXCEPT ![k] =
                 [state |-> "fulfilled", storageSlot |-> @.storageSlot,
                  value |-> getPoolInfo(poolIds[k], raw)]]
          /\ settled' = Append(settled, k)
          /\ batch' = PromiseAll(batch, promises', settled', k)
    /\ UNCHANGED poolIds
    /\ UNCHANGED notBatch

\* the static call of the k-th getPoolInfo rejects: both catch blocks log
\* the error and throw it again
ExtsloadThrows ==
    /\ \E k \in 1..Len(promises) :
          /\ promises[k].state = "pending"
          /\ promises' = [promises EXCEPT ![k] =
                 [state |-> "rejected", storageSlot |-> @.storageSlot,
                  reason |-> CallError(k)]]
          /\ settled' = Append(settled, k)
          /\ batch' = PromiseAll(batch, promises', settled', k)
    /\ UNCHANGED poolIds
    /\ UNCHANGED notBatch

BatchNext ==
    \/ CallBatchReadPools
    \/ ExtsloadReturns
    \/ ExtsloadThrows

SpecBatch == BatchInit /\ [][BatchNext]_vars

-----------------------------------------------------------------------------
(* Properties of the probe *)

\* what the reader answers for the derived slot of candidate index j (the
\* derived slots of distinct indices are distinct, see C9)
ReadBack(j) == reader[j]

MatchingIndices == {j \in Candidates : ReadBack(j) = EXPECTED_RAW_DATA}

NeverFails == \A j \in Candidates : ReadBack(j) # RPC_ERROR

\* the k-th read issued has failed
FailedRead(k) == issued[k] \notin pending /\ ReadBack(issued[k]) = RPC_ERROR

\* C1: when the probe returns an index, that index reads back the expected
\* word and no lower candidate index does, also when several indices match.
C1_LowestMatchWins ==
    result.tag = "found" =>
        /\ ReadBack(result.slot) = EXPECTED_RAW_DATA
        /\ \A j \in Candidates :
              ReadBack(j) = EXPECTED_RAW_DATA => result.slot <= j

C1_Witness ==
    /\ pc = "done"
    /\ result.tag = "found"
    /\ result.slot > 0
    /\ Cardinality(MatchingIndices) >= 2

\* C2: with a reader that never fails, the probe returns NotFound exactly
\* when no candidate index reads back the expected word; a reader answering
\* the expected word at one index and zero elsewhere gives that index, and an
\* all-zero reader gives NotFound.
C2_ProbeCorrect ==
    (pc = "done" /\ NeverFails) =>
        /\ (result = NotFound) <=> (MatchingIndices = {})
        /\ \A i \in Candidates :
              (\A j \in Candidates :
                  ReadBack(j) = IF j = i THEN EXPECTED_RAW_DATA ELSE ZERO_WORD)
              => result = Found(i)
        /\ (\A j \in Candidates : ReadBack(j) = ZERO_WORD) => result = NotFound

C2_Witness ==
    /\ pc = "done"
    /\ result = Found(6)
    /\ \A j \in Candidates :
          ReadBack(j) = IF j = 6 THEN EXPECTED_RAW_DATA ELSE ZERO_WORD

\* C3 as stated: once a read has failed the probe stops; no further read is
\* issued and neither an index nor NotFound is returned.
C3_AbortsOnFailure ==
    \A k \in 1..Len(issued) :
        FailedRead(k) =>
            /\ k = Len(issued)
            /\ result = Running

\* C3 as amended: a failed read is caught inside readStorageSlot and yields
\* null; the index is skipped without a retry, the probe goes on with the
\* next index, and it ends with a later matching index or with NotFound.
C3_FailureSkipped ==
    \A k \in 1..Len(issued) :
        FailedRead(k) =>
            /\ Cardinality({m \in 1..Len(issued) : issued[m] = issued[k]}) = 1
            /\ k < Len(issued) => issued[k + 1] = issued[k] + 1
            /\ k = Len(issued) =>
                  /\ data = NULL
                  /\ pc \in {"awaitDelay", "loop", "done"}
                  /\ result \in {Running, NotFound}
            /\ pc = "done" =>
                  \/ result = NotFound
                  \/ result.tag = "found" /\ result.slot > issued[k]

C3_Witness ==
    /\ pc = "done"
    /\ result.tag = "found"
    /\ \E k \in 1..Len(issued) : FailedRead(k) /\ issued[k] < result.slot

\* C10: at most one reader call is outstanding, the reader is invoked on
\* strictly ascending indices, and a read is issued only when every earlier
\* one has completed.
C10_Sequential ==
    /\ Cardinality(pending) <= 1
    /\ pending # {} => pc = "awaitRead" /\ pending = {issued[Len(issued)]}
    /\ \A k, m \in 1..Len(issued) : k < m => issued[k] < issued[m]

C10_Witness ==
    /\ Len(issued) >= 3
    /\ pending = {2}

-----------------------------------------------------------------------------
(* Properties of the slot derivations *)

\* n on len bytes, most significant first
RECURSIVE Base256(_, _)
Base256(n, len) ==
    IF len = 0 THEN <<>> ELSE Append(Base256(n \div 256, len - 1), n % 256)

\* the hash of the key's 32 bytes followed by the index on 32 bytes
DerivedSlot(index, id) == keccak256(HexToBytes(id) \o Base256(index, 32))

\* C9: every derivation of the repository yields the hash of the 64 bytes
\* made of the 32-byte key followed by the base slot index padded to 32
\* bytes: calculateStorageSlot, calculatePoolStorageSlot (index 6), and the
\* ABI-encoded and packed-encoded derivations of debug.js, which match.
C9_SameDerivation ==
    /\ key # NONE => Len(DerivedSlot(baseSlot, key)[2]) = 64
    /\ finderSlot # NONE => finderSlot = DerivedSlot(baseSlot, key)
    /\ readerSlot # NONE => readerSlot = DerivedSlot(6, key)
    /\ debugSlots # NONE =>
          /\ debugSlots.calculatedSlot = DerivedSlot(baseSlot, key)
          /\ debugSlots.manualHash = DerivedSlot(baseSlot, key)
          /\ debugSlots.match

C9_Witness ==
    /\ key = KNOWN_POOL_ID
    /\ baseSlot = 6
    /\ finderSlot # NONE
    /\ readerSlot = finderSlot
    /\ debugSlots # NONE
    /\ debugSlots.match
    /\ debugSlots.manualHash = finderSlot

-----------------------------------------------------------------------------
(* Properties of the identifier *)

\* x < y for two byte sequences of one length read as unsigned integers
NumLess(x, y) ==
    \E i \in 1..Len(x) : x[i] < y[i] /\ \A j \in 1..(i - 1) : x[j] = y[j]

\* the k-th 32-byte slot of an encoding
EncodedSlot(bytes, k) == SubSeq(bytes, 32 * k - 31, 32 * k)

\* the 20-byte value of an address text, padded to a slot
Padded(text) == [i \in 1..32 |-> IF i <= 12 THEN 0 ELSE HexToBytes(text)[i - 12]]

\* C4: the identifier does not depend on the order in which the two distinct
\* addresses are given.
C4_Symmetric ==
    (idAB # NONE /\ idBA # NONE /\ addressA # addressB) => idAB = idBA

C4_Witness ==
    /\ idAB # NONE
    /\ idAB = idBA
    /\ NumLess(HexToBytes(addressB), HexToBytes(addressA))

\* the numerically smaller address comes first in the encoded tuple
SmallerFirst ==
    LET a == HexToBytes(addressA)
        b == HexToBytes(addressB)
        first == IF NumLess(b, a) THEN addressB ELSE addressA
        second == IF NumLess(b, a) THEN addressA ELSE addressB
    IN  /\ EncodedSlot(idAB[2], 1) = Padded(first)
        /\ EncodedSlot(idAB[2], 2) = Padded(second)
        /\ NumLess(a, b) => tokensAB = <<addressA, addressB>>
        /\ NumLess(b, a) => tokensAB = <<addressB, addressA>>

\* C5 as stated: the numerically smaller address is first in the encoded
\* tuple whatever the letter case, and equal addresses keep the input order.
C5_TieKeepsInputOrder ==
    idAB # NONE =>
        /\ SmallerFirst
        /\ HexToBytes(addressA) = HexToBytes(addressB)
              => tokensAB = <<addressA, addressB>>

\* C5 as amended: the numerically smaller address is first in the encoded
\* tuple whatever the letter case, and equal addresses are swapped (addressB
\* first, addressA second), which encodes to the same tuple.
C5_TieSwaps ==
    idAB # NONE =>
        /\ SmallerFirst
        /\ HexToBytes(addressA) = HexToBytes(addressB)
              => /\ tokensAB = <<addressB, addressA>>
                 /\ EncodedSlot(idAB[2], 1) = EncodedSlot(idAB[2], 2)

C5_Witness ==
    /\ idAB # NONE
    /\ HexToBytes(addressA) = HexToBytes(addressB)
    /\ addressA # addressB
    /\ tokensAB = <<addressB, addressA>>

-----------------------------------------------------------------------------
(* Properties of the decoder *)

\* the hex digits of bits [offset, offset + width) of a word text
FieldHex(text, offset, width) ==
    SubSeq(text, Len(text) - ((offset + width) \div 4) + 1,
           Len(text) - (offset \div 4))

RECURSIVE HexToNat(_)
HexToNat(digits) ==
    IF digits = <<>> THEN 0
    ELSE 16 * HexToNat(SubSeq(digits, 1, Len(digits) - 1))
            + HexVal(digits[Len(digits)])

DigitVal(ch) == CHOOSE v \in 0..9 : DecimalDigits[v + 1] = ch

RECURSIVE ParseNat(_)
ParseNat(str) ==
    IF str = <<>> THEN 0
    ELSE 10 * ParseNat(SubSeq(str, 1, Len(str) - 1)) + DigitVal(str[Len(str)])

ParseInt(str) ==
    IF str[1] = "-" THEN 0 - ParseNat(Tail(str)) ELSE ParseNat(str)

\* sixteen 16-bit limbs, least significant first, of a hex digit sequence
HexLimbs(digits) ==
    [k \in 1..16 |->
        IF 4 * k <= Len(digits)
        THEN HexToNat(SubSeq(digits, Len(digits) - 4 * k + 1,
                             Len(digits) - 4 * k + 4))
        ELSE 0]

\* limbs k..16 of limbs * 10000 + carry
RECURSIVE TimesTenThousand(_, _, _)
TimesTenThousand(limbs, k, carry) ==
    IF k > 16 THEN <<>>
    ELSE LET cur == limbs[k] * 10000 + carry
         IN  <<cur % 65536>> \o TimesTenThousand(limbs, k + 1, cur \div 65536)

\* the limbs of the number a decimal digit sequence denotes
RECURSIVE ParseBig(_)
ParseBig(str) ==
    IF Len(str) <= 4 THEN [k \in 1..16 |-> IF k = 1 THEN ParseNat(str) ELSE 0]
    ELSE TimesTenThousand(ParseBig(SubSeq(str, 1, Len(str) - 4)), 1,
                          ParseNat(SubSeq(str, Len(str) - 3, Len(str))))

TickField == HexToNat(FieldHex(rawData, 160, 24))

\* C6: the decoded tick is the two's-complement reading of bits [160, 184):
\* the extracted value minus 2^24 when its bit 23 is set, else the value; it
\* lies in [-2^23, 2^23 - 1]; 0xFFFFFF is -1 signed and 16777215 unsigned.
C6_SignedTick ==
    /\ decoded # NONE =>
          LET t == ParseInt(decoded.tick)
          IN  /\ t = IF (TickField \div 8388608) % 2 = 1
                     THEN TickField - 16777216
                     ELSE TickField
              /\ -8388608 <= t /\ t <= 8388607
              /\ TickField = 16777215 => decoded.tick = <<"-", "1">>
    /\ (slotDecoded # NONE /\ TickField = 16777215)
          => slotDecoded.tick = <<"1", "6", "7", "7", "7", "2", "1", "5">>

C6_Witness ==
    /\ decoded # NONE
    /\ slotDecoded # NONE
    /\ TickField = 16777215
    /\ decoded.tick = <<"-", "1">>

\* the field ranges of the word
Layout ==
    <<[name |-> "sqrtPriceX96", offset |-> 0, width |-> 160],
      [name |-> "tick", offset |-> 160, width |-> 24],
      [name |-> "protocolFee", offset |-> 184, width |-> 24],
      [name |-> "lpFee", offset |-> 208, width |-> 24]>>

\* the value of field k of the layout in the raw word
FieldNat(k) == HexToNat(FieldHex(rawData, Layout[k].offset, Layout[k].width))

\* C7: each field is the unsigned integer formed by the bits of its own range
\* of the word, bit 0 the least significant: sqrtPriceX96 [0,160), tick
\* [160,184), protocolFee [184,208), lpFee [208,232); each lies in
\* [0, 2^width) and the ranges neither overlap nor pass bit 256.
C7_FieldExtraction ==
    /\ \A k \in 1..Len(Layout) :
          /\ Layout[k].offset + Layout[k].width <= WordBits
          /\ k > 1 => Layout[k].offset = Layout[k - 1].offset + Layout[k - 1].width
    /\ decoded # NONE =>
          /\ ParseBig(decoded.sqrtPriceX96) = HexLimbs(FieldHex(rawData, 0, 160))
          /\ (ParseInt(decoded.tick) + 16777216) % 16777216 = FieldNat(2)
          /\ ParseInt(decoded.protocolFee) = FieldNat(3)
          /\ ParseInt(decoded.lpFee) = FieldNat(4)
          /\ \A k \in 2..4 : 0 <= FieldNat(k) /\ FieldNat(k) < 16777216
          /\ decoded.sqrtPriceX96[1] # "-"
    /\ slotDecoded # NONE =>
          /\ ParseBig(slotDecoded.sqrtPriceX96) = HexLimbs(FieldHex(rawData, 0, 160))
          /\ ParseInt(slotDecoded.tick) = FieldNat(2)

C7_Witness ==
    /\ decoded # NONE
    /\ slotDecoded # NONE
    /\ fields.top = Rep("f", 6)
    /\ fields.protocolFee = 1
    /\ fields.lpFee = 20000
    /\ decoded.protocolFee = <<"1">>
    /\ decoded.lpFee = <<"2", "0", "0", "0", "0">>

\* C8: packing field values of the declared ranges at offsets 0, 160, 184 and
\* 208 (tick in two's complement) and decoding the word gives the values back.
C8_RoundTrip ==
    decoded # NONE =>
        /\ rawData = Pack(fields)
        /\ ParseBig(decoded.sqrtPriceX96) = HexLimbs(fields.sqrtPriceX96)
        /\ ParseInt(decoded.tick) = fields.tick
        /\ ParseInt(decoded.protocolFee) = fields.protocolFee
        /\ ParseInt(decoded.lpFee) = fields.lpFee

C8_Witness ==
    /\ decoded # NONE
    /\ fields.sqrtPriceX96 = Rep("f", 40)
    /\ fields.tick = -8388608
    /\ fields.protocolFee = 16777215
    /\ fields.lpFee = 16777215
    /\ decoded.tick = <<"-", "8", "3", "8", "8", "6", "0", "8">>

-----------------------------------------------------------------------------
(* batchReadPools *)

Rejected == {k \in 1..Len(promises) : promises[k].state = "rejected"}

AllFulfilled == \A k \in 1..Len(promises) : promises[k].state = "fulfilled"

\* the promise that rejected first
FirstRejected ==
    settled[CHOOSE i \in 1..Len(settled) :
                /\ settled[i] \in Rejected
                /\ \A j \in 1..(i - 1) : settled[j] \notin Rejected]

\* C11: batchReadPools starts one getPoolInfo per pool id, each reading the
\* slot derived from its own pool id, and all reads are outstanding together.
\* Whatever the completion order, when every read succeeded the batch is
\* fulfilled with a list as long as the input whose k-th entry carries the
\* k-th pool id and the decoding of the word read for it; as soon as a read
\* failed the batch is rejected with the error of the read that failed (the
\* first one to fail), and it never holds a list of results.
C11_BatchInInputOrder ==
    /\ batch.state # "notCalled" =>
          /\ Len(promises) = Len(poolIds)
          /\ \A k \in 1..Len(poolIds) :
                promises[k].storageSlot = DerivedSlot(6, poolIds[k])
    /\ (batch.state # "notCalled" /\ AllFulfilled) =>
          /\ batch.state = "fulfilled"
          /\ Len(batch.value) = Len(poolIds)
          /\ \A k \in 1..Len(poolIds) :
                LET info == batch.value[k]
                    state == decodePoolState(promises[k].value.rawData)
                IN  /\ info = promises[k].value
                    /\ info.poolId = poolIds[k]
                    /\ info.sqrtPriceX96 = state.sqrtPriceX96
                    /\ info.tick = state.tick
                    /\ info.protocolFee = state.protocolFee
                    /\ info.lpFee = state.lpFee
    /\ Rejected # {} =>
          /\ batch.state = "rejected"
          /\ batch.reason = CallError(FirstRejected)
          /\ (Cardinality(Rejected) = 1 => batch.reason.call \in Rejected)
    /\ batch.state = "fulfilled" => AllFulfilled
    /\ batch.state \in {"pending", "rejected"} => "value" \notin DOMAIN batch

\* three reads of two pool ids complete in the order 3, 1, 2 with different
\* words and the batch is fulfilled
C11_Witness ==
    /\ batch.state = "fulfilled"
    /\ Len(poolIds) = 3
    /\ poolIds[1] # poolIds[2]
    /\ settled = <<3, 1, 2>>
    /\ batch.value[1].rawData = KNOWN_WORD
    /\ batch.value[2].rawData = ZERO_TEXT

\* the second of three reads fails after the third succeeded and before the
\* first completes: the batch is rejected while a read is outstanding
C11_FailureWitness ==
    /\ batch.state = "rejected"
    /\ settled = <<3, 2>>
    /\ promises[1].state = "pending"
    /\ batch.reason = CallError(2)

-----------------------------------------------------------------------------
(* Termination of the probes *)

Terminated == pc \in {"done", "alchemyDone"}

\* each candidate index is read at most once, at most 21 reads are issued
\* (the direct reads of testAlchemyStorageAt included), the probe reads are
\* on indices 0..20, and once a match is found no read has been issued, or is
\* issued later, on an index above it
ReadsBounded ==
    /\ \A k, m \in 1..Len(issued) : issued[k] = issued[m] => k = m
    /\ Len(issued) + basicIndex + (IF pc = "basicAwait" THEN 1 ELSE 0) <= 21
    /\ \A k \in 1..Len(issued) : issued[k] \in 0..20
    /\ result.tag = "found" =>
          /\ pending = {}
          /\ \A k \in 1..Len(issued) : issued[k] <= result.slot

\* C12: provided every reader call eventually completes, with a word or a
\* failure, the probe always terminates; each candidate index is read at most
\* once, at most 21 reads (indices 0..20) are issued in total, and no read is
\* issued for an index greater than the returned index once a match is found.
C12_Terminates ==
    /\ <>Terminated
    /\ []ReadsBounded
    /\ [](Terminated => [](Terminated /\ pending = {}))

\* findCorrectPoolsSlot went through all 21 indices, one of which failed,
\* and returned null
C12_Witness ==
    /\ pc = "done"
    /\ result = NotFound
    /\ Len(issued) = 21
    /\ \E k \in 1..Len(issued) : FailedRead(k)

=============================================================================
